---- MODULE Spec2Model ----
(***************************************************************************)
(* The host-based reverse proxy of python_test/app.py: the Flask view      *)
(* gateway(path), the route store it reads (routes_collection) and the     *)
(* upstream it calls through the requests library.                         *)
(*                                                                         *)
(* Strings whose structure the code inspects (URLs, paths) are sequences   *)
(* of tokens: "http://" is the scheme prefix, "/" a slash, anything else a *)
(* run of other characters.  A MultiDict (request.args, request.form,      *)
(* request.files) is the sequence of its (key, value) pairs in arrival     *)
(* order.  A dict is a sequence of pairs with distinct keys (insertion     *)
(* order) or, for headers, a set of pairs with distinct names.             *)
(***************************************************************************)
EXTENDS Naturals, Sequences, FiniteSets

(* ---------------------------- bounds ----------------------------------- *)

\* request slots of the server (threads handling a request each)
NumReq == 2
\* longest list of file parts of an inbound multipart body
MaxFiles == 2
\* longest list of non-file form fields of an inbound multipart body
MaxFields == 1

Reqs == 1..NumReq

(* ------------------------- input universe ------------------------------ *)

Hosts == {"a.test", "b.test"}

\* target_url values the route store may hold for a host
Targets == { <<"svc", "/", "/">>, <<"http://", "svc">> }

\* '' comes from root_gateway, the others from the <path:path> converter
Paths == { <<>>, <<"v1", "/", "x">> }

\* request.args
Queries == { <<>>, << <<"a", "1">> >> }

\* methods a client may send; TRACE stands for the methods Flask's router
\* rejects on its own
Methods == {"GET", "POST", "PUT", "PATCH", "DELETE", "HEAD", "TRACE"}

\* headers of the inbound request besides Host
ExtraHeaders == { {}, { <<"X-Trace", "t1">> } }

File1 == [filename |-> "a.txt", stream |-> "AAA", mimetype |-> "text/plain"]
File2 == [filename |-> "b.png", stream |-> "BBB", mimetype |-> "image/png"]
FileParts == { <<"doc", File1>>, <<"img", File2>> }
FormParts == { <<"note", "n1">> }

\* texts of a JSON request body
JsonTexts == { "null", "{\"id\":7}" }

RECURSIVE SeqsUpTo(_, _)
SeqsUpTo(S, n) ==
    IF n = 0 THEN { <<>> }
    ELSE LET shorter == SeqsUpTo(S, n - 1)
         IN shorter \cup { Append(s, x) : s \in shorter, x \in S }

\* inbound bodies: nothing, a JSON document, bytes that are not JSON under a
\* JSON content type, or multipart/form-data with files and form fields
Bodies ==
    { [kind |-> "none", text |-> "", files |-> <<>>, form |-> <<>>] }
    \cup { [kind |-> "json", text |-> t, files |-> <<>>, form |-> <<>>] : t \in JsonTexts }
    \cup { [kind |-> "malformed", text |-> "{oops", files |-> <<>>, form |-> <<>>] }
    \cup { [kind |-> "multipart", text |-> "", files |-> fs, form |-> fm] :
              fs \in SeqsUpTo(FileParts, MaxFiles), fm \in SeqsUpTo(FormParts, MaxFields) }

Requests ==
    { [method |-> m, headers |-> {<<"Host", h>>} \cup x, path |-> p, args |-> a, body |-> b] :
        m \in Methods, h \in Hosts, x \in ExtraHeaders, p \in Paths, a \in Queries, b \in Bodies }

\* the requests of the concurrent scenario
ConcurrentRequests ==
    { [method |-> "GET", headers |-> {<<"Host", h>>}, path |-> <<"v1", "/", "x">>,
       args |-> <<>>, body |-> [kind |-> "none", text |-> "", files |-> <<>>, form |-> <<>>]] :
        h \in Hosts }

\* what an upstream that answers may answer
UpstreamResponses ==
    { [status_code |-> s, content |-> "payload", headers |-> {<<"X-Up", "u">>}] :
        s \in {200, 404, 500} }

(* --------------------------- pure helpers ------------------------------ *)

\* str.lower() on the header names that occur
Lower(name) ==
    CASE name = "Host" -> "host"
      [] name = "X-Trace" -> "x-trace"
      [] OTHER -> name

\* request.headers.get(name): the lookup ignores case
HeadersGet(headers, name) ==
    LET hit == { h \in headers : Lower(h[1]) = Lower(name) }
    IN IF hit = {} THEN "None" ELSE (CHOOSE h \in hit : TRUE)[2]

\* str.rstrip('/'): every trailing slash goes
RECURSIVE rstrip(_)
rstrip(s) ==
    IF s # <<>> /\ s[Len(s)] = "/" THEN rstrip(SubSeq(s, 1, Len(s) - 1)) ELSE s

\* MultiDict.items(): one pair per key, the first value of the key, in the
\* order of the keys' first appearance
RECURSIVE MultiItems(_)
MultiItems(md) ==
    IF md = <<>> THEN <<>>
    ELSE LET front == MultiItems(SubSeq(md, 1, Len(md) - 1))
             last == md[Len(md)]
         IN IF \E i \in 1..Len(front) : front[i][1] = last[1]
            THEN front
            ELSE Append(front, last)

\* json.loads as far as the gateway can tell: JSON null is Python's None
Loads(text) == IF text = "null" THEN "None" ELSE text

\* flask.jsonify(error=...) with a status: the body is the JSON object
jsonify(message, status) ==
    [status_code |-> status,
     body |-> [json |-> TRUE, error |-> message, raw |-> ""],
     headers |-> {<<"Content-Type", "application/json">>}]

\* the HTML page werkzeug renders for an HTTPException or an unhandled error
ErrorPage(status) ==
    [status_code |-> status,
     body |-> [json |-> FALSE, error |-> "", raw |-> "<html>"],
     headers |-> {<<"Content-Type", "text/html">>}]

(* ------------------------- the route store ----------------------------- *)

\* find_one found nothing (Python's None)
NoRoute == [found |-> FALSE, host_url |-> "", target_url |-> <<>>]

\* a document of routes_collection
RouteDoc(h, t) == [found |-> TRUE, host_url |-> h, target_url |-> t]

\* a gateway that read its routes once, at startup, from the empty collection
find_one_AtStartup(s, host_url) == NoRoute

\* routes_collection.find_one({'host_url': host_url}) on the collection s
find_one(s, host_url) ==
    IF host_url \in DOMAIN s THEN s[host_url] ELSE NoRoute

(* ---------------------- the body of gateway(path) ---------------------- *)

\* methods of the two @app.route decorators
RouteMethods == {"GET", "POST", "PUT", "PATCH", "DELETE"}

\* methods Flask hands to the view: the decorator's, and HEAD, which Flask
\* adds to every rule that accepts GET
ViewMethods == RouteMethods \cup {"HEAD"}

\* host_url = request.headers.get("host")
host_url(req) == HeadersGet(req.headers, "host")

\* target_url = route['target_url'].rstrip('/')
target_url(route) == rstrip(route.target_url)

\* full_target_url = f"http://{target_url}/{path}" if path else target_url
full_target_url(tu, path) ==
    IF path # <<>> THEN <<"http://">> \o tu \o <<"/">> \o path ELSE tu

\* the filter without .lower(): key != 'host'
ForwardHeaders_CaseSensitive(headers) == { h \in headers : h[1] # "host" }

\* headers = {key: value for key, value in request.headers if key.lower() != 'host'}
ForwardHeaders(headers) == { h \in headers : Lower(h[1]) # "host" }

\* files = {key: (file.filename, file.stream, file.mimetype)
\*          for key, file in request.files.items()}
FilesDict(files) ==
    LET items == MultiItems(files)
    IN [i \in 1..Len(items) |->
          <<items[i][1],
            <<items[i][2].filename, items[i][2].stream, items[i][2].mimetype>>>>]

\* bodies of an outbound call
NoBody == [kind |-> "NoBody", json |-> "", fields |-> <<>>, files |-> <<>>]
JsonBody(v) == [kind |-> "JsonBody", json |-> v, fields |-> <<>>, files |-> <<>>]
MultipartBody(fields, files) ==
    [kind |-> "MultipartBody", json |-> "", fields |-> fields, files |-> files]

\* requests.<method>(..., json=v): requests sends no body for json=None
EncodeJson(v) == IF v = "None" THEN NoBody ELSE JsonBody(v)

\* requests.<method>(..., data=request.form, files=files): the form is a
\* Mapping, so requests takes its items()
EncodeMultipart(form, files) == MultipartBody(MultiItems(form), files)

\* requests.get(..., params=request.args): likewise the items() of the args
EncodeParams(args) == MultiItems(args)

\* request.json: the parsed document; 400 for a JSON content type whose
\* bytes do not parse; for any other content type 415, or None under a
\* werkzeug older than 2.1
GetJson(body) ==
    CASE body.kind = "json" ->
            { [ok |-> TRUE, value |-> Loads(body.text), status |-> 0] }
      [] body.kind = "malformed" ->
            { [ok |-> FALSE, value |-> "", status |-> 400] }
      [] OTHER ->
            { [ok |-> FALSE, value |-> "", status |-> 415],
              [ok |-> TRUE, value |-> "None", status |-> 0] }

Call(method, url, headers, params, body) ==
    [method |-> method, url |-> url, headers |-> headers, params |-> params,
     body |-> body]

NoCall == Call("", <<>>, {}, <<>>, NoBody)

NoResponse == [status_code |-> 0,
               body |-> [json |-> FALSE, error |-> "", raw |-> ""],
               headers |-> {}]

\* the not-found return without its status: Flask answers 200
RouteNotFound_NoStatus == jsonify("Route not found", 200)

\* return jsonify({'error': 'Route not found'}), 404
RouteNotFound == jsonify("Route not found", 404)

\* return jsonify({'error': 'Method not allowed'}), 405
MethodNotAllowed == jsonify("Method not allowed", 405)

\* return jsonify({'error': str(e)}), 500
ForwardError(text) == jsonify(text, 500)

\* a relay that calls response.raise_for_status() inside the try
Relay_RaiseForStatus(u) ==
    IF u.status_code >= 400
    THEN ForwardError("HTTPError")
    ELSE [status_code |-> u.status_code,
          body |-> [json |-> FALSE, error |-> "", raw |-> u.content],
          headers |-> u.headers]

\* return (response.content, response.status_code, response.headers.items())
Relay(u) ==
    [status_code |-> u.status_code,
     body |-> [json |-> FALSE, error |-> "", raw |-> u.content],
     headers |-> u.headers]

Respond(resp) == [call |-> FALSE, out |-> NoCall, response |-> resp]
Issue(out) == [call |-> TRUE, out |-> out, response |-> NoResponse]

\* the branch of POST, PUT and PATCH: lines 37-41, 43-47, 49-53
WithBody(req, url, headers) ==
    IF req.body.files # <<>>
    THEN { Issue(Call(req.method, url, headers, <<>>,
                      EncodeMultipart(req.body.form, FilesDict(req.body.files)))) }
    ELSE { IF j.ok
           THEN Issue(Call(req.method, url, headers, <<>>, EncodeJson(j.value)))
           ELSE Respond(ErrorPage(j.status)) : j \in GetJson(req.body) }

\* gateway(path) from the result of find_one up to the upstream call or the
\* return that comes first: the ways the view can go on
Gateway(req, route) ==
    IF ~route.found THEN { Respond(RouteNotFound) }
    ELSE LET url == full_target_url(target_url(route), req.path)
             headers == ForwardHeaders(req.headers)
         IN CASE req.method = "GET" ->
                    { Issue(Call("GET", url, headers, EncodeParams(req.args), NoBody)) }
              [] req.method \in {"POST", "PUT", "PATCH"} ->
                    WithBody(req, url, headers)
              [] req.method = "DELETE" ->
                    { Issue(Call("DELETE", url, headers, <<>>, NoBody)) }
              [] OTHER -> { Respond(MethodNotAllowed) }

\* requests refuses a URL without a scheme before it opens a connection
HasScheme(url) == url # <<>> /\ url[1] = "http://"

\* str(e) of the RequestException an upstream call raises
FailureText(url, reach) ==
    IF ~HasScheme(url) THEN "No scheme supplied"
    ELSE IF ~reach THEN "Connection refused"
    ELSE "Read timed out"

\* what an upstream call gave: nothing yet, a response, or an exception
NoResult == [kind |-> "none", status_code |-> 0, content |-> "", headers |-> {},
             text |-> ""]
Answered(u) == [kind |-> "response", status_code |-> u.status_code,
                content |-> u.content, headers |-> u.headers, text |-> ""]
Raised(text) == [kind |-> "exception", status_code |-> 0, content |-> "",
                 headers |-> {}, text |-> text]

\* what find_one gave a request: nothing yet, or the document or None
Pending == [returned |-> FALSE, doc |-> NoRoute]
Returned(doc) == [returned |-> TRUE, doc |-> doc]

(* ------------------------------ state ---------------------------------- *)

VARIABLES
    store,      \* routes_collection: host_url -> RouteDoc or NoRoute
    pc,         \* where each slot's request is: idle, lookup, forward, done
    request,    \* the inbound request of each slot
    reachable,  \* whether the upstream can be reached while the request runs
    route,      \* what find_one gave the slot
    outbound,   \* the upstream call the slot issued
    upstream,   \* what the upstream call gave: a response or an exception
    response,   \* the response given to the client
    lookups,    \* number of find_one calls of the request
    calls       \* number of upstream calls of the request

vars == <<store, pc, request, reachable, route, outbound, upstream, response,
          lookups, calls>>

NoRequest == [method |-> "", headers |-> {}, path |-> <<>>, args |-> <<>>,
              body |-> [kind |-> "none", text |-> "", files |-> <<>>, form |-> <<>>]]

Init ==
    /\ store \in [Hosts -> {NoRoute}]
    /\ pc = [r \in Reqs |-> "idle"]
    /\ request = [r \in Reqs |-> NoRequest]
    /\ reachable = [r \in Reqs |-> TRUE]
    /\ route = [r \in Reqs |-> Pending]
    /\ outbound = [r \in Reqs |-> NoCall]
    /\ upstream = [r \in Reqs |-> NoResult]
    /\ response = [r \in Reqs |-> NoResponse]
    /\ lookups = [r \in Reqs |-> 0]
    /\ calls = [r \in Reqs |-> 0]

(* ------------------- the store's owner changes it ---------------------- *)

AddRoute(h, t) ==
    /\ ~store[h].found
    /\ store' = [store EXCEPT ![h] = RouteDoc(h, t)]
    /\ UNCHANGED <<pc, request, reachable, route, outbound, upstream, response,
                   lookups, calls>>

ChangeTarget(h, t) ==
    /\ store[h].found
    /\ store[h].target_url # t
    /\ store' = [store EXCEPT ![h] = RouteDoc(h, t)]
    /\ UNCHANGED <<pc, request, reachable, route, outbound, upstream, response,
                   lookups, calls>>

DeleteRoute(h) ==
    /\ store[h].found
    /\ store' = [store EXCEPT ![h] = NoRoute]
    /\ UNCHANGED <<pc, request, reachable, route, outbound, upstream, response,
                   lookups, calls>>

(* --------------------------- a request --------------------------------- *)

\* Flask receives the request q in slot r and routes it: a method of the
\* rule enters gateway(path), which blocks in find_one; any other method
\* gets the router's own 405 page
Receive(r, q, reach) ==
    /\ pc[r] = "idle"
    /\ request' = [request EXCEPT ![r] = q]
    /\ reachable' = [reachable EXCEPT ![r] = reach]
    /\ IF q.method \in ViewMethods
       THEN /\ pc' = [pc EXCEPT ![r] = "lookup"]
            /\ UNCHANGED response
       ELSE /\ pc' = [pc EXCEPT ![r] = "done"]
            /\ response' = [response EXCEPT ![r] = ErrorPage(405)]
    /\ UNCHANGED <<store, route, outbound, upstream, lookups, calls>>

\* find_one returns and the view runs on to its upstream call or its return
Lookup(r) ==
    /\ pc[r] = "lookup"
    /\ LET found == find_one(store, host_url(request[r]))
       IN /\ route' = [route EXCEPT ![r] = Returned(found)]
          /\ lookups' = [lookups EXCEPT ![r] = @ + 1]
          /\ \E g \in Gateway(request[r], found) :
                IF g.call
                THEN /\ outbound' = [outbound EXCEPT ![r] = g.out]
                     /\ calls' = [calls EXCEPT ![r] = @ + 1]
                     /\ pc' = [pc EXCEPT ![r] = "forward"]
                     /\ UNCHANGED response
                ELSE /\ response' = [response EXCEPT ![r] = g.response]
                     /\ pc' = [pc EXCEPT ![r] = "done"]
                     /\ UNCHANGED <<outbound, calls>>
    /\ UNCHANGED <<store, request, reachable, upstream>>

\* find_one raises (the store is down): nothing in the view catches a
\* pymongo error, Flask answers with its 500 page
LookupFails(r) ==
    /\ pc[r] = "lookup"
    /\ lookups' = [lookups EXCEPT ![r] = @ + 1]
    /\ response' = [response EXCEPT ![r] = ErrorPage(500)]
    /\ pc' = [pc EXCEPT ![r] = "done"]
    /\ UNCHANGED <<store, request, reachable, route, outbound, upstream, calls>>

\* the upstream answers with u: line 59
UpstreamResponds(r, u) ==
    /\ pc[r] = "forward"
    /\ HasScheme(outbound[r].url)
    /\ reachable[r]
    /\ upstream' = [upstream EXCEPT ![r] = Answered(u)]
    /\ response' = [response EXCEPT ![r] = Relay(u)]
    /\ pc' = [pc EXCEPT ![r] = "done"]
    /\ UNCHANGED <<store, request, reachable, route, outbound, lookups, calls>>

\* the upstream call raises a RequestException: lines 60-61
UpstreamFails(r) ==
    /\ pc[r] = "forward"
    /\ LET text == FailureText(outbound[r].url, reachable[r])
       IN /\ upstream' = [upstream EXCEPT ![r] = Raised(text)]
          /\ response' = [response EXCEPT ![r] = ForwardError(text)]
    /\ pc' = [pc EXCEPT ![r] = "done"]
    /\ UNCHANGED <<store, request, reachable, route, outbound, lookups, calls>>

\* the client has its response, the slot is free for the next request
Close(r) ==
    /\ pc[r] = "done"
    /\ pc' = [pc EXCEPT ![r] = "idle"]
    /\ request' = [request EXCEPT ![r] = NoRequest]
    /\ reachable' = [reachable EXCEPT ![r] = TRUE]
    /\ route' = [route EXCEPT ![r] = Pending]
    /\ outbound' = [outbound EXCEPT ![r] = NoCall]
    /\ upstream' = [upstream EXCEPT ![r] = NoResult]
    /\ response' = [response EXCEPT ![r] = NoResponse]
    /\ lookups' = [lookups EXCEPT ![r] = 0]
    /\ calls' = [calls EXCEPT ![r] = 0]
    /\ UNCHANGED store

\* a client that sends its next request when the last one is answered
ReceiveSerial(r) ==
    /\ \A o \in Reqs : pc[o] = "idle"
    /\ \E q \in Requests, reach \in BOOLEAN : Receive(r, q, reach)

\* clients that send while other requests are in flight
ReceiveConcurrent(r) ==
    /\ pc[r] = "idle"
    /\ \E q \in ConcurrentRequests, reach \in BOOLEAN : Receive(r, q, reach)

StoreChanges ==
    \E h \in Hosts :
        \/ \E t \in Targets : AddRoute(h, t)
        \/ \E t \in Targets : ChangeTarget(h, t)
        \/ DeleteRoute(h)

Handle(r) ==
    \/ Lookup(r)
    \/ LookupFails(r)
    \/ \E u \in UpstreamResponses : UpstreamResponds(r, u)
    \/ UpstreamFails(r)
    \/ Close(r)

Next ==
    \/ StoreChanges
    \/ \E r \in Reqs : ReceiveSerial(r)
    \/ \E r \in Reqs : Handle(r)

Spec == Init /\ [][Next]_vars

NextConcurrent ==
    \/ StoreChanges
    \/ \E r \in Reqs : ReceiveConcurrent(r)
    \/ \E r \in Reqs : Handle(r)

ConcurrentSpec == Init /\ [][NextConcurrent]_vars

(* ------------------------------ claims --------------------------------- *)

Done(r) == pc[r] = "done"

\* the value of the inbound Host header, read off the request
HostOf(r) == CHOOSE h \in Hosts : <<"Host", h>> \in request[r].headers

\* the find_one of the request returned a document
Resolved(r) == route[r].returned /\ route[r].doc.found

\* the find_one of the request returned None
Unresolved(r) == route[r].returned /\ ~route[r].doc.found

\* C1: a method outside GET, POST, PUT, PATCH, DELETE that reaches the view
\* (HEAD) is answered 405 {"error": "Method not allowed"} with no store
\* lookup and no upstream call made for the request.
C1_MethodRejectedBeforeLookup ==
    \A r \in Reqs :
        (Done(r) /\ request[r].method \in ViewMethods \ RouteMethods)
            => /\ response[r] = jsonify("Method not allowed", 405)
               /\ lookups[r] = 0
               /\ calls[r] = 0

\* the URL the specification gives: the target without its trailing
\* slashes, then "/" and the path when there is a path
SpecifiedURL(target, path) ==
    IF path # <<>> THEN rstrip(target) \o <<"/">> \o path ELSE rstrip(target)

\* C2: a GET for a registered host goes upstream to the target with its
\* trailing slash removed, followed by "/" and the path when the path is not
\* empty, with the inbound query as the query; the target part is formed
\* the same way with and without a path.
C2_GetURLIsTargetSlashPath ==
    \A r \in Reqs :
        (calls[r] > 0 /\ request[r].method = "GET")
            => /\ outbound[r].url =
                      SpecifiedURL(route[r].doc.target_url, request[r].path)
               /\ outbound[r].params = request[r].args

\* C3: when find_one returns no route for the Host of a GET, POST, PUT,
\* PATCH or DELETE, whatever the path and the body, the response is 404
\* {"error": "Route not found"} and no upstream call is made.
C3_UnknownHostIs404 ==
    \A r \in Reqs :
        (Done(r) /\ Unresolved(r) /\ request[r].method \in RouteMethods)
            => /\ response[r].status_code = 404
               /\ response[r].body.json
               /\ response[r].body.error = "Route not found"
               /\ calls[r] = 0
               /\ outbound[r] = NoCall

C3_Witness ==
    \E r \in Reqs :
        /\ Done(r) /\ Unresolved(r)
        /\ request[r].method = "PUT"
        /\ request[r].body.kind = "malformed"
        /\ request[r].path # <<>>
        /\ response[r].status_code = 404

\* C4: a request whose host resolves and whose upstream cannot be reached
\* gets 500 with a JSON body whose error field is the non-empty description
\* of the failure, for each of GET, POST, PUT, PATCH, DELETE and each body
\* kind JSON, multipart (with files), none.
C4_UnreachableIs500 ==
    \A r \in Reqs :
        (/\ Done(r) /\ Resolved(r) /\ ~reachable[r]
         /\ request[r].method \in RouteMethods
         /\ \/ request[r].body.kind \in {"json", "none"}
            \/ request[r].body.kind = "multipart" /\ request[r].body.files # <<>>)
            => /\ response[r].status_code = 500
               /\ response[r].body.json
               /\ response[r].body.error # ""

\* every file part of the inbound body as requests would be given it
EveryFile(files) ==
    [i \in 1..Len(files) |->
        <<files[i][1],
          <<files[i][2].filename, files[i][2].stream, files[i][2].mimetype>>>>]

\* C5: the outbound body is decided by the method and the presence of file
\* parts: GET and DELETE send no body; POST, PUT and PATCH with a file part
\* send a multipart body with every file and every non-file form field;
\* POST, PUT and PATCH without a file part send exactly the inbound JSON
\* payload as the JSON body.
C5_BodyKindByMethodAndFiles ==
    \A r \in Reqs :
        calls[r] > 0 =>
            LET q == request[r]
                b == outbound[r].body
            IN /\ q.method \in {"GET", "DELETE"} => b = NoBody
               /\ (q.method \in {"POST", "PUT", "PATCH"} /\ q.body.files # <<>>)
                     => /\ b.kind = "MultipartBody"
                        /\ b.files = EveryFile(q.body.files)
                        /\ b.fields = q.body.form
               /\ (q.method \in {"POST", "PUT", "PATCH"} /\ q.body.files = <<>>
                   /\ q.body.kind = "json")
                     => /\ b.kind = "JsonBody"
                        /\ b.json = q.body.text

\* C6: the headers of every upstream call are the inbound headers without
\* the Host header, whatever the method and the body: no Host among them,
\* no other header dropped or changed.
C6_HeadersMinusHost ==
    \A r \in Reqs :
        calls[r] > 0 =>
            /\ \A h \in outbound[r].headers : h[1] \notin {"Host", "host", "HOST"}
            /\ outbound[r].headers =
                  request[r].headers \ { <<"Host", HostOf(r)>> }

C6_Witness ==
    \E r \in Reqs :
        /\ calls[r] > 0
        /\ request[r].method = "PATCH"
        /\ request[r].body.files # <<>>
        /\ <<"X-Trace", "t1">> \in request[r].headers
        /\ <<"X-Trace", "t1">> \in outbound[r].headers
        /\ <<"Host", "a.test">> \in request[r].headers

\* C7: when the upstream call returns a response, of any status, the client
\* gets exactly its status code, body bytes and headers; an upstream error
\* status is never replaced by an error response of the gateway.
C7_RelayVerbatim ==
    \A r \in Reqs :
        (Done(r) /\ upstream[r].kind = "response")
            => /\ response[r].status_code = upstream[r].status_code
               /\ ~response[r].body.json
               /\ response[r].body.raw = upstream[r].content
               /\ response[r].headers = upstream[r].headers

C7_Witness ==
    \E r \in Reqs :
        /\ Done(r)
        /\ upstream[r].kind = "response"
        /\ upstream[r].status_code = 500
        /\ request[r].method = "DELETE"
        /\ response[r].status_code = 500
        /\ response[r].body.raw = "payload"

\* C8: the query of the inbound request is passed unchanged to the upstream
\* call of every forwarded request, POST, PUT, PATCH and DELETE as well as
\* GET.
C8_QueryPassedForEveryMethod ==
    \A r \in Reqs :
        calls[r] > 0 => outbound[r].params = request[r].args

\* C9: every request ends in one of four outcomes tied to the stage it
\* reached: 405 (no lookup, no upstream call), 404 (one lookup, no upstream
\* call), 500 with the error text (one lookup, one failed upstream call) or
\* the relayed upstream response (one lookup, one upstream call); and no
\* request makes more than one upstream call.
C9_FourOutcomes ==
    \A r \in Reqs :
        /\ calls[r] <= 1
        /\ Done(r) =>
            \/ /\ response[r].status_code = 405
               /\ lookups[r] = 0 /\ calls[r] = 0
            \/ /\ response[r] = jsonify("Route not found", 404)
               /\ lookups[r] = 1 /\ calls[r] = 0
            \/ /\ upstream[r].kind = "exception"
               /\ upstream[r].text # ""
               /\ response[r] = jsonify(upstream[r].text, 500)
               /\ lookups[r] = 1 /\ calls[r] = 1
            \/ /\ upstream[r].kind = "response"
               /\ response[r].status_code = upstream[r].status_code
               /\ response[r].body.raw = upstream[r].content
               /\ response[r].headers = upstream[r].headers
               /\ lookups[r] = 1 /\ calls[r] = 1

\* C10: every lookup is a fresh read of the store as it is at that moment,
\* whatever other requests for the same host resolved to: the request gets
\* the store's current document for its Host (a 404 when there is none, a
\* call to the current target otherwise), and no step of a request changes
\* the store.
C10_FreshReadNoWrite ==
    [][ \A r \in Reqs :
          /\ pc'[r] # pc[r] => store' = store
          /\ (pc[r] = "lookup" /\ route'[r].returned) =>
                /\ route'[r].doc = store[HostOf(r)]
                /\ ~store[HostOf(r)].found =>
                      /\ response'[r] = jsonify("Route not found", 404)
                      /\ calls'[r] = 0
                /\ (store[HostOf(r)].found /\ calls'[r] = 1) =>
                      outbound'[r].url =
                         IF request[r].path = <<>>
                         THEN rstrip(store[HostOf(r)].target_url)
                         ELSE <<"http://">> \o rstrip(store[HostOf(r)].target_url)
                                 \o <<"/">> \o request[r].path
                /\ (store[HostOf(r)].found /\ request[r].method = "GET") =>
                      calls'[r] = 1
      ]_vars

\* two requests in flight for the same host that resolved differently
C10_Witness ==
    \E r, o \in Reqs :
        /\ r # o
        /\ pc[r] = "forward" /\ pc[o] = "forward"
        /\ HostOf(r) = HostOf(o)
        /\ Resolved(r) /\ Resolved(o)
        /\ route[r].doc.target_url # route[o].doc.target_url
        /\ outbound[r].url # outbound[o].url
        /\ store[HostOf(r)] = NoRoute

====
